---------------------------- MODULE Spec2Model ----------------------------
(***************************************************************************)
(* A model of the casbin-go-cloud-adapter (adapter.go): the rule codec     *)
(* (savePolicyLine / generateID / loadPolicyLine / toStringPolicy), the    *)
(* filter builder (addFiltersToQuery) and the adapter's operations on a    *)
(* docstore collection.                                                    *)
(*                                                                         *)
(* Go strings are modelled as sequences of one-character strings, so that  *)
(* formatting (fmt.Sprint of a struct, strings.Join) and parsing (the CSV  *)
(* split of persist.LoadPolicyLine) are computed character by character.   *)
(***************************************************************************)
EXTENDS Integers, Sequences, FiniteSets, TLC

VARIABLES
    built,      \* history: the constructor that built the adapter and Config.IsFiltered
    collection, \* adapter.collection: "open", or "nil" once close has released the handle
    calls,      \* the calls in progress of concurrent callers (used by SpecConc only)
    store,      \* the documents of the collection (a set of CasbinRule records, at most one per ID)
    filtered,   \* adapter.filtered
    timeout,    \* adapter.timeout, in seconds
    lastLoad,   \* history: whether the most recent load call was given a filter ("none" before any load)
    before,     \* history: the documents of the collection when the last call was issued
    last        \* the last call on the adapter: operation, arguments, returned error and result

vars == <<built, collection, calls, store, filtered, timeout, lastLoad, before, last>>

\* What no operation other than close changes.
handle == <<built, collection, calls>>

-----------------------------------------------------------------------------
(* Strings *)

\* The empty Go string "".
Empty == << >>

\* strings.Join(elems, sep)
RECURSIVE Join(_, _)
Join(elems, sep) ==
    IF Len(elems) = 0 THEN Empty
    ELSE IF Len(elems) = 1 THEN elems[1]
    ELSE elems[1] \o sep \o Join(Tail(elems), sep)

\* The separator loadPolicyLine joins with: ", ".
CommaSpace == <<",", " ">>

\* encoding/csv with Comma = ',': the fields of one record line (no quote
\* character occurs in the strings of this model).
RECURSIVE SplitComma(_, _)
SplitComma(s, cur) ==
    IF Len(s) = 0 THEN <<cur>>
    ELSE IF Head(s) = "," THEN <<cur>> \o SplitComma(Tail(s), Empty)
    ELSE SplitComma(Tail(s), Append(cur, Head(s)))

\* encoding/csv with TrimLeadingSpace = true: leading white space of a field is dropped.
RECURSIVE TrimLeadingSpace(_)
TrimLeadingSpace(s) ==
    IF Len(s) > 0 /\ Head(s) = " " THEN TrimLeadingSpace(Tail(s)) ELSE s

-----------------------------------------------------------------------------
(* Rule codec *)

\* The zero value of the CasbinRule struct with PType set.
CasbinRule(ptype) ==
    [PType |-> ptype, V0 |-> Empty, V1 |-> Empty, V2 |-> Empty,
     V3 |-> Empty, V4 |-> Empty, V5 |-> Empty, ID |-> Empty]

\* fmt.Sprint(line): the struct's fields in declaration order (PType, V0..V5,
\* ID), separated by one space, in braces.
Sprint(line) ==
    <<"{">> \o Join(<<line.PType, line.V0, line.V1, line.V2, line.V3,
                     line.V4, line.V5, line.ID>>, <<" ">>) \o <<"}">>

\* md5.Sum followed by %x: a digest of the data.  The digest is modelled as
\* collision free: two digests are equal exactly when the data are.
md5Sum(data) == <<"m", "d", "5", ":">> \o data

\* A variant that fingerprints the rule type alone.
generateIDOfPType(line) == md5Sum(line.PType)

generateID(line) == md5Sum(Sprint(line))

\* A variant that fingerprints every field it is given, not the six it keeps.
savePolicyLineHashAll(ptype, rule) ==
    LET v(k) == IF Len(rule) >= k THEN rule[k] ELSE Empty
        line == [CasbinRule(ptype) EXCEPT !.V0 = v(1), !.V1 = v(2), !.V2 = v(3),
                                          !.V3 = v(4), !.V4 = v(5), !.V5 = v(6)]
    IN  [line EXCEPT !.ID = md5Sum(Join(<<ptype>> \o rule, <<" ">>))]

savePolicyLine(ptype, rule) ==
    LET l0 == CasbinRule(ptype)
        l1 == IF Len(rule) > 0 THEN [l0 EXCEPT !.V0 = rule[1]] ELSE l0
        l2 == IF Len(rule) > 1 THEN [l1 EXCEPT !.V1 = rule[2]] ELSE l1
        l3 == IF Len(rule) > 2 THEN [l2 EXCEPT !.V2 = rule[3]] ELSE l2
        l4 == IF Len(rule) > 3 THEN [l3 EXCEPT !.V3 = rule[4]] ELSE l3
        l5 == IF Len(rule) > 4 THEN [l4 EXCEPT !.V4 = rule[5]] ELSE l4
        l6 == IF Len(rule) > 5 THEN [l5 EXCEPT !.V5 = rule[6]] ELSE l5
    IN  [l6 EXCEPT !.ID = generateID(l6)]

\* The text loadPolicyLine hands to persist.LoadPolicyLine.
lineText(line) ==
    LET p == <<line.PType, line.V0, line.V1, line.V2, line.V3, line.V4, line.V5>>
    IN  IF line.V5 # Empty THEN Join(p, CommaSpace)
        ELSE IF line.V4 # Empty THEN Join(SubSeq(p, 1, 6), CommaSpace)
        ELSE IF line.V3 # Empty THEN Join(SubSeq(p, 1, 5), CommaSpace)
        ELSE IF line.V2 # Empty THEN Join(SubSeq(p, 1, 4), CommaSpace)
        ELSE IF line.V1 # Empty THEN Join(SubSeq(p, 1, 3), CommaSpace)
        ELSE IF line.V0 # Empty THEN Join(SubSeq(p, 1, 2), CommaSpace)
        ELSE Empty

\* persist.LoadPolicyLine(text, model): an empty line or a comment line loads
\* nothing; otherwise the line is split as one CSV record and the tuple
\* <<key, values>> is added to the model unless it is already there.  The
\* model is the set of its <<rule type, values>> tuples: the order of a
\* rule type's list depends on the store's iteration order and is not kept.
LoadPolicyLine(text, model) ==
    IF text = Empty \/ Head(text) = "#" THEN model
    ELSE LET fields == SplitComma(text, Empty)
             tokens == [i \in 1..Len(fields) |-> TrimLeadingSpace(fields[i])]
         IN  model \cup {<<tokens[1], Tail(tokens)>>}

loadPolicyLine(line, model) == LoadPolicyLine(lineText(line), model)

\* persist.LoadPolicyArray takes the section of a record as key[:1], the first
\* character of its first token: a record whose first token is empty makes the
\* slice expression panic.
ErrSliceBounds == "panic: slice bounds out of range"

LoadPolicyLinePanics(text) ==
    /\ text # Empty
    /\ Head(text) # "#"
    /\ TrimLeadingSpace(SplitComma(text, Empty)[1]) = Empty

\* (c *CasbinRule).toStringPolicy()
toStringPolicy(c) ==
    LET add(policy, s) == IF s # Empty THEN Append(policy, s) ELSE policy
    IN  add(add(add(add(add(add(add(<< >>, c.PType), c.V0), c.V1), c.V2), c.V3), c.V4), c.V5)

-----------------------------------------------------------------------------
(* The docstore collection, as the adapter drives it.  The collection is     *)
(* opened with "id" as its key field (mem://casbin_rule/id), so a document's *)
(* key is its ID and the store holds at most one document per ID.            *)

Key(doc) == doc.ID

\* The document fields a query can address.  V1..V5 carry `omitempty`: an
\* empty value is not stored, and a filter on an absent field matches nothing.
HasField(doc, name) ==
    \/ name \in {"ptype", "v0", "id"}
    \/ name = "v1" /\ doc.V1 # Empty
    \/ name = "v2" /\ doc.V2 # Empty
    \/ name = "v3" /\ doc.V3 # Empty
    \/ name = "v4" /\ doc.V4 # Empty
    \/ name = "v5" /\ doc.V5 # Empty

FieldOf(doc, name) ==
    CASE name = "ptype" -> doc.PType
      [] name = "v0" -> doc.V0
      [] name = "v1" -> doc.V1
      [] name = "v2" -> doc.V2
      [] name = "v3" -> doc.V3
      [] name = "v4" -> doc.V4
      [] name = "v5" -> doc.V5
      [] name = "id" -> doc.ID

\* The operator for equality.
EqualOp == "="

\* query.Where(fieldPath, op, value): the query is the list of its filters.
Where(query, fieldPath, op, value) ==
    Append(query, [FieldPath |-> fieldPath, Op |-> op, Value |-> value])

\* Whether a document satisfies one filter of a query.  A path of several
\* segments addresses a nested field, which no CasbinRule document has.
Satisfies(doc, f) ==
    /\ Len(f.FieldPath) = 1
    /\ HasField(doc, f.FieldPath[1])
    /\ f.Op = EqualOp
    /\ FieldOf(doc, f.FieldPath[1]) = f.Value

\* query.Get(ctx) drained to io.EOF: the documents that satisfy every filter.
QueryGet(s, query) ==
    {doc \in s : \A i \in 1..Len(query) : Satisfies(doc, query[i])}

\* The write actions of an action list.
PutAction(doc) == [kind |-> "Put", doc |-> doc]
DeleteAction(doc) == [kind |-> "Delete", doc |-> doc]

\* docstore rejects an action list that holds two writes for one key, before
\* it runs any of them.
DuplicateKey(actions) ==
    \E i, j \in 1..Len(actions) : i # j /\ Key(actions[i].doc) = Key(actions[j].doc)

\* The store after the actions at the positions `done` have run.  (The
\* variant RunActionsInsertOnly is a Put that only inserts: it leaves a
\* stored document of the same key in place.)  The keys of
\* a list that runs are pairwise different, so the order does not matter.  A
\* Put replaces the document of the same key; a Delete of an absent key does
\* nothing.
RunActionsInsertOnly(s, actions, done) ==
    LET deleted == {Key(actions[i].doc) : i \in {k \in done : actions[k].kind = "Delete"}}
        puts == {actions[i].doc : i \in {k \in done : actions[k].kind = "Put"}}
    IN  {doc \in s : Key(doc) \notin deleted}
            \cup {doc \in puts : \A d \in s : Key(d) # Key(doc)}

RunActions(s, actions, done) ==
    LET written == {Key(actions[i].doc) : i \in done}
        puts == {actions[i].doc : i \in {k \in done : actions[k].kind = "Put"}}
    IN  {doc \in s : Key(doc) \notin written} \cup puts

\* Errors, as the strings the calls return ("" is nil).
NoError == ""
ErrFilteredSave == "cannot save a filtered policy"
ErrInvalidFilter == "invalid filter type"
ErrDuplicateKey == "duplicate key in action list"
ErrStore == "store error"
\* The error iter.Next returns when the scan of a query fails.
ErrIter == "iterator error"
ErrNilHandle == "panic: nil pointer dereference"

\* actionList.Do(ctx): the possible outcomes <<error, store after>>.  When
\* the store fails (an I/O error, the timeout), any part of the list may have
\* been applied.  On the nil handle that close leaves behind, Do dereferences
\* the collection and the call panics.
Do(s, actions) ==
    IF collection = "nil" THEN {<<ErrNilHandle, s>>}
    ELSE IF DuplicateKey(actions) THEN {<<ErrDuplicateKey, s>>}
    ELSE {<<NoError, RunActions(s, actions, 1..Len(actions))>>}
         \cup {<<ErrStore, RunActions(s, actions, done)>> : done \in SUBSET (1..Len(actions))}

-----------------------------------------------------------------------------
(* Bounds and input domains *)

\* The longest rule list handed to a batch operation.
MaxBatch == 2
\* The longest fieldValues list handed to a filtered operation.
MaxFilterLen == 2
\* The longest value list handed to the codec on its own.
MaxFields == 3
\* The most value fields a rule is given beyond the six a document holds.
MaxExtra == 2

sA == <<"a">>
sB == <<"b">>
sASp == <<"a", " ">>
sSpB == <<" ", "b">>
pP == <<"p">>
pG == <<"g">>

\* The rule types of the policy model: one of section "p", one of section "g".
PTypes == {pP, pG}

\* The value lists of the rules the callers pass: plain values, an empty
\* value before a non-empty one, a value that ends with a space and a value
\* that starts with one.
RuleValues == {<<sA, sB>>, <<Empty, sB>>, <<sASp, sB>>, <<sA, sSpB>>}

\* The rules (rule type, values) the callers pass.
Rules == ({pP} \X RuleValues) \cup {<<pG, <<sA, sB>>>>}

ValuesOf(ptype) == {r[2] : r \in {x \in Rules : x[1] = ptype}}

\* The sequences over S of length at most n.
SeqUpTo(S, n) == UNION {[1..k -> S] : k \in 0..n}

\* The values of the new rules handed to UpdateFilteredPolicies.
NewRuleValues == {<<sA, sB>>, <<sASp, sB>>}

\* The rules handed to UpdatePolicies.
UpdateValues == {<<sA, sB>>, <<Empty, sB>>}

\* The values of a fieldValues list; the empty string is the wildcard.
FilterValues == {Empty, sA, sB}
FieldValueLists == SeqUpTo(FilterValues, MaxFilterLen)
FieldIndexes == {0, 1, 5}

\* The field values handed to UpdateFilteredPolicies (with fieldIndex 0).
UpdateFieldValueLists == {<< >>, <<sA>>, <<sB>>, <<Empty, sB>>}

\* The <<fieldIndex, fieldValues>> handed to UpdateFilteredPolicies: the lists
\* above at position 0, one value at position 1, and one beyond position 5.
UpdateFilters ==
    ({0} \X UpdateFieldValueLists) \cup {<<1, <<sB>>>>, <<6, <<sA>>>>}

\* The policy models handed to SavePolicy, and those a load appends to.
Models == {m \in SUBSET Rules : Cardinality(m) <= 2}
LoadModels == {{}, {<<pP, <<sA, sB>>>>}}

\* The caller filters handed to LoadFilteredPolicy: nil, the four accepted
\* shapes, and a value of another type.
NilFilter == [shape |-> "nil", preds |-> << >>]
V0IsA == [FieldPath |-> <<"v0">>, Op |-> "", Value |-> sA]
V1IsB == [FieldPath |-> <<"v1">>, Op |-> EqualOp, Value |-> sB]
CallerFilters ==
    {NilFilter, [shape |-> "other", preds |-> << >>]}
    \cup {[shape |-> sh, preds |-> <<f>>] :
              sh \in {"Filter", "*Filter"}, f \in {V0IsA, V1IsB}}
    \cup {[shape |-> sh, preds |-> fs] :
              sh \in {"[]Filter", "*[]Filter"},
              fs \in {<< >>, <<V0IsA>>, <<V1IsB>>, <<V0IsA, V1IsB>>}}

\* The inputs of the codec on its own: value lists of up to MaxFields values
\* that do not end with an empty value.
CodecValues == {Empty, sA, sB, sASp, sSpB}
CodecFields ==
    {f \in SeqUpTo(CodecValues, MaxFields) : Len(f) = 0 \/ f[Len(f)] # Empty}

\* Field lists longer than the six value fields of a document.
LongFields == {f \in SeqUpTo({sA, sB}, 6 + MaxExtra) : Len(f) > 6}

\* The rule types handed to the codec: the section keys and the empty string.
CodecPTypes == PTypes \cup {Empty}

\* A set as a list, in the order the store or the Go map happens to iterate.
RECURSIVE SetToSeq(_)
SetToSeq(S) ==
    IF S = {} THEN << >>
    ELSE LET x == CHOOSE y \in S : TRUE IN <<x>> \o SetToSeq(S \ {x})

-----------------------------------------------------------------------------
(* The adapter *)

\* The record of a call: its operation and arguments, the error it returned,
\* the model after a load (loaded), the old tuples UpdateFilteredPolicies
\* returned (ret), and the adapter's filtered flag and collection handle when
\* the call was issued.
Call(op) ==
    [op |-> op, ptype |-> Empty, rules |-> << >>, newRules |-> << >>,
     fieldIndex |-> 0, fieldValues |-> << >>, model |-> {}, filter |-> NilFilter,
     err |-> NoError, ret |-> << >>, loaded |-> {},
     filtered |-> filtered, collection |-> collection]

\* No call is in progress: the caller may issue the next one.
Idle == last.op = "idle"

\* const defaultTimeout = 30 * time.Second
defaultTimeout == 30

\* The Config.Timeout a caller of NewWithOption sets, in seconds.
ConfigTimeouts == {5}

\* The ways to build an adapter: New(url) is NewWithOption with only the URL
\* set (IsFiltered false, Timeout zero), NewFilteredAdapter(url) likewise, and
\* NewWithOption takes the caller's Config, here with IsFiltered and Timeout
\* set.
Constructors ==
    {[ctor |-> "New", IsFiltered |-> FALSE, Timeout |-> 0],
     [ctor |-> "NewFilteredAdapter", IsFiltered |-> FALSE, Timeout |-> 0]}
    \cup {[ctor |-> "NewWithOption", IsFiltered |-> TRUE, Timeout |-> t] : t \in ConfigTimeouts}

\* adapter.timeout when the constructor returns: config.Timeout, with the
\* default in place of zero.
TimeoutAtConstruction(b) ==
    IF b.Timeout = 0 THEN defaultTimeout ELSE b.Timeout

\* adapter.filtered when the constructor returns: config.IsFiltered, which
\* NewFilteredAdapter overwrites with true.
FilteredAtConstruction(b) ==
    IF b.ctor = "NewFilteredAdapter" THEN TRUE ELSE b.IsFiltered

\* No concurrent callers.
NoCalls == << >>

\* New / NewWithOption / NewFilteredAdapter: the collection is open (and
\* empty).
Init ==
    /\ built \in Constructors
    /\ collection = "open"
    /\ calls = NoCalls
    /\ store = {}
    /\ filtered = FilteredAtConstruction(built)
    /\ timeout = TimeoutAtConstruction(built)
    /\ lastLoad = "none"
    /\ before = {}
    /\ last = Call(built.ctor)

\* The caller takes the result of the call.
Return ==
    /\ ~Idle
    /\ last' = Call("idle")
    /\ before' = store
    /\ UNCHANGED <<store, filtered, timeout, lastLoad, handle>>

-----------------------------------------------------------------------------
(* Loads *)

\* A load that never marks the adapter as filtered: the variant of
\* FilteredAfterLoad under which a save after a filtered load goes through.
FilteredAfterLoadNever(filter) == FALSE

\* A load that always marks the adapter as filtered: the variant of
\* FilteredAfterLoad under which LoadPolicy does not clear the flag.
FilteredAfterLoadAlways(filter) == TRUE

\* LoadFilteredPolicy sets a.filtered from the filter before anything else.
FilteredAfterLoad(filter) == filter.shape # "nil"

\* The type switch of LoadFilteredPolicy: whether the filter has one of the
\* four accepted types (nil skips the switch).
ValidFilter(filter) ==
    filter.shape \in {"nil", "Filter", "*Filter", "[]Filter", "*[]Filter"}

\* The filters the type switch collects.
NormalizeFilter(filter) ==
    IF filter.shape \in {"Filter", "*Filter"} THEN <<filter.preds[1]>>
    ELSE IF filter.shape \in {"[]Filter", "*[]Filter"} THEN filter.preds
    ELSE << >>

\* The query of a load: one Where per filter, the operator defaulting to ==.
\* (The path segments are joined with "." and docstore splits them again.)
\* The variant of LoadQuery without the default: an unset operator is
\* handed to the query as it is.
RECURSIVE LoadQueryNoDefault(_, _)
LoadQueryNoDefault(filters, query) ==
    IF Len(filters) = 0 THEN query
    ELSE LET f == Head(filters)
         IN  LoadQueryNoDefault(Tail(filters), Where(query, f.FieldPath, f.Op, f.Value))

RECURSIVE LoadQuery(_, _)
LoadQuery(filters, query) ==
    IF Len(filters) = 0 THEN query
    ELSE LET f == Head(filters)
             op == IF f.Op = "" THEN EqualOp ELSE f.Op
         IN  LoadQuery(Tail(filters), Where(query, f.FieldPath, op, f.Value))

\* The loop of LoadFilteredPolicy over the documents it read.
RECURSIVE LoadLines(_, _)
LoadLines(docs, model) ==
    IF docs = {} THEN model
    ELSE LET line == CHOOSE d \in docs : TRUE
         IN  LoadLines(docs \ {line}, loadPolicyLine(line, model))

\* The possible results <<error, model after>> of LoadFilteredPolicy on the
\* store s.  The iteration either drains the matching documents, or fails
\* after it has read some of them.  On the nil handle that close leaves
\* behind, query.Get dereferences the collection and the call panics.
LoadOutcomes(s, model, filter) ==
    IF ~ValidFilter(filter) THEN {<<ErrInvalidFilter, model>>}
    ELSE IF collection = "nil" THEN {<<ErrNilHandle, model>>}
    ELSE LET matched == QueryGet(s, LoadQuery(NormalizeFilter(filter), << >>))
         IN  {<<NoError, LoadLines(matched, model)>>}
             \cup {<<ErrIter, LoadLines(read, model)>> : read \in SUBSET matched}

\* The variant of a load that takes the documents it reads out of the store.
LoadDrains(op, model, filter) ==
    /\ Idle
    /\ filtered' = FilteredAfterLoad(filter)
    /\ lastLoad' = IF filter.shape = "nil" THEN "unfiltered" ELSE "filtered"
    /\ store' = store \ QueryGet(store, LoadQuery(NormalizeFilter(filter), << >>))
    /\ timeout' = timeout
    /\ before' = store
    /\ UNCHANGED handle
    /\ \E out \in LoadOutcomes(store, model, filter) :
          last' = [Call(op) EXCEPT !.model = model, !.filter = filter,
                                   !.err = out[1], !.loaded = out[2]]

\* A load under the name `op`.
Load(op, model, filter) ==
    /\ Idle
    /\ filtered' = FilteredAfterLoad(filter)
    /\ lastLoad' = IF filter.shape = "nil" THEN "unfiltered" ELSE "filtered"
    /\ store' = store
    /\ timeout' = timeout
    /\ before' = store
    /\ UNCHANGED handle
    /\ \E out \in LoadOutcomes(store, model, filter) :
          last' = [Call(op) EXCEPT !.model = model, !.filter = filter,
                                   !.err = out[1], !.loaded = out[2]]

LoadFilteredPolicy(model, filter) == Load("LoadFilteredPolicy", model, filter)

LoadPolicy(model) == Load("LoadPolicy", model, NilFilter)

-----------------------------------------------------------------------------
(* Writes by rule *)

\* The rules of a section of the model: model["p"], model["g"].
SectionRules(model, sec) == {r \in model : Head(r[1]) = sec}

\* The variant of the guard that lets every save through.
SaveRejectedNever(isFiltered) == FALSE

\* The guard of SavePolicy.
SaveRejected(isFiltered) == isFiltered

\* The Puts SavePolicy collects: section p, then section g.  (The variant
\* SavePolicyActionsOnlyP leaves out the loop over section g.)
SavePolicyActionsOnlyP(model) ==
    LET rules == SetToSeq(SectionRules(model, "p"))
    IN  [i \in 1..Len(rules) |-> PutAction(savePolicyLine(rules[i][1], rules[i][2]))]

SavePolicyActions(model) ==
    LET rules == SetToSeq(SectionRules(model, "p")) \o SetToSeq(SectionRules(model, "g"))
    IN  [i \in 1..Len(rules) |-> PutAction(savePolicyLine(rules[i][1], rules[i][2]))]

AddPoliciesActions(ptype, rules) ==
    [i \in 1..Len(rules) |-> PutAction(savePolicyLine(ptype, rules[i]))]

\* The variant of RemovePoliciesActions that stops after the first rule.
RemovePoliciesActionsFirst(ptype, rules) ==
    [i \in 1..(IF Len(rules) = 0 THEN 0 ELSE 1) |-> DeleteAction(savePolicyLine(ptype, rules[i]))]

RemovePoliciesActions(ptype, rules) ==
    [i \in 1..Len(rules) |-> DeleteAction(savePolicyLine(ptype, rules[i]))]

UpdatePolicyActions(ptype, oldRule, newPolicy) ==
    <<DeleteAction(savePolicyLine(ptype, oldRule)), PutAction(savePolicyLine(ptype, newPolicy))>>

\* The possible results <<error, store after>> of SavePolicy.
SaveOutcomes(s, isFiltered, model) ==
    IF SaveRejected(isFiltered) THEN {<<ErrFilteredSave, s>>}
    ELSE Do(s, SavePolicyActions(model))

\* The variant of a write that resets the adapter as it returns: the flag is
\* cleared and the timeout is set back to the default.
WriteResets(call, outcomes) ==
    /\ Idle
    /\ filtered' = FALSE
    /\ lastLoad' = lastLoad
    /\ timeout' = defaultTimeout
    /\ before' = store
    /\ UNCHANGED handle
    /\ \E out \in outcomes :
          /\ store' = out[2]
          /\ last' = [call EXCEPT !.err = out[1]]

\* A call that leaves the filtered flag and the timeout alone and ends in one
\* of `outcomes`.
Write(call, outcomes) ==
    /\ Idle
    /\ filtered' = filtered
    /\ lastLoad' = lastLoad
    /\ timeout' = timeout
    /\ before' = store
    /\ UNCHANGED handle
    /\ \E out \in outcomes :
          /\ store' = out[2]
          /\ last' = [call EXCEPT !.err = out[1]]

SavePolicy(model) ==
    Write([Call("SavePolicy") EXCEPT !.model = model], SaveOutcomes(store, filtered, model))

AddPolicy(ptype, rule) ==
    Write([Call("AddPolicy") EXCEPT !.ptype = ptype, !.rules = <<rule>>],
          Do(store, <<PutAction(savePolicyLine(ptype, rule))>>))

AddPolicies(ptype, rules) ==
    Write([Call("AddPolicies") EXCEPT !.ptype = ptype, !.rules = rules],
          Do(store, AddPoliciesActions(ptype, rules)))

RemovePolicies(ptype, rules) ==
    Write([Call("RemovePolicies") EXCEPT !.ptype = ptype, !.rules = rules],
          Do(store, RemovePoliciesActions(ptype, rules)))

\* RemovePolicy deletes with collection.Delete: an action list of one Delete.
RemovePolicy(ptype, rule) ==
    Write([Call("RemovePolicy") EXCEPT !.ptype = ptype, !.rules = <<rule>>],
          Do(store, <<DeleteAction(savePolicyLine(ptype, rule))>>))

UpdatePolicy(ptype, oldRule, newPolicy) ==
    Write([Call("UpdatePolicy") EXCEPT !.ptype = ptype, !.rules = <<oldRule>>,
                                       !.newRules = <<newPolicy>>],
          Do(store, UpdatePolicyActions(ptype, oldRule, newPolicy)))

ErrIndexOutOfRange == "panic: index out of range"

\* The variant of the loop that goes on to the pairs after a failed one and
\* returns the first error at the end.
RECURSIVE UpdatePoliciesFromContinues(_, _, _, _, _)
UpdatePoliciesFromContinues(s, ptype, oldRules, newRules, i) ==
    IF i > Len(oldRules) THEN {<<NoError, s>>}
    ELSE IF i > Len(newRules) THEN {<<ErrIndexOutOfRange, s>>}
    ELSE UNION {LET rest == UpdatePoliciesFromContinues(out[2], ptype, oldRules, newRules, i + 1)
                IN  IF out[1] = NoError THEN rest
                    ELSE {<<out[1], r[2]>> : r \in rest} :
                   out \in Do(s, UpdatePolicyActions(ptype, oldRules[i], newRules[i]))}

\* The loop of UpdatePolicies from pair i on (i counts from 1): one
\* Delete(old) + Put(new) action list per pair, in index order; the first
\* error is returned and ends the loop.  The loop runs over oldRules and
\* indexes newRules with the same index.
RECURSIVE UpdatePoliciesFrom(_, _, _, _, _)
UpdatePoliciesFrom(s, ptype, oldRules, newRules, i) ==
    IF i > Len(oldRules) THEN {<<NoError, s>>}
    ELSE IF i > Len(newRules) THEN {<<ErrIndexOutOfRange, s>>}
    ELSE UNION {IF out[1] = NoError
                THEN UpdatePoliciesFrom(out[2], ptype, oldRules, newRules, i + 1)
                ELSE {out} :
                   out \in Do(s, UpdatePolicyActions(ptype, oldRules[i], newRules[i]))}

UpdatePolicies(ptype, oldRules, newRules) ==
    Write([Call("UpdatePolicies") EXCEPT !.ptype = ptype, !.rules = oldRules,
                                         !.newRules = newRules],
          UpdatePoliciesFrom(store, ptype, oldRules, newRules, 1))

-----------------------------------------------------------------------------
(* The flag and the handle *)

\* IsFiltered returns a.filtered.
IsFiltered ==
    /\ Idle
    /\ last' = [Call("IsFiltered") EXCEPT !.ret = <<filtered>>]
    /\ before' = store
    /\ UNCHANGED <<store, filtered, timeout, lastLoad, handle>>

\* close (run by the finalizer): closes the collection, if there is one, and
\* sets the handle to nil.
close ==
    /\ Idle
    /\ collection' = "nil"
    /\ last' = Call("close")
    /\ before' = store
    /\ UNCHANGED <<built, calls, store, filtered, timeout, lastLoad>>

-----------------------------------------------------------------------------
(* Writes by filter *)

\* fmt.Sprintf("v%d", filterIndex) for the positions 0..5.
VName(filterIndex) == <<"v0", "v1", "v2", "v3", "v4", "v5">>[filterIndex + 1]

\* fieldValues[i] of the Go slice (indexed from 0).
At(fieldValues, i) == fieldValues[i + 1]

\* The variant of addFiltersToQuery without the test for a blank value: a
\* blank value is then compared like any other.
addFiltersToQueryNoBlank(query, filterIndex, fieldIndex, fieldValues) ==
    IF /\ fieldIndex <= filterIndex
       /\ filterIndex < fieldIndex + Len(fieldValues)
    THEN Where(query, <<VName(filterIndex)>>, EqualOp, At(fieldValues, filterIndex - fieldIndex))
    ELSE query

addFiltersToQuery(query, filterIndex, fieldIndex, fieldValues) ==
    IF /\ fieldIndex <= filterIndex
       /\ filterIndex < fieldIndex + Len(fieldValues)
       /\ At(fieldValues, filterIndex - fieldIndex) # Empty
    THEN Where(query, <<VName(filterIndex)>>, EqualOp, At(fieldValues, filterIndex - fieldIndex))
    ELSE query

\* The loop `for i := 0; i <= 5; i++` over addFiltersToQuery.
RECURSIVE AddFiltersFrom(_, _, _, _)
AddFiltersFrom(query, i, fieldIndex, fieldValues) ==
    IF i > 5 THEN query
    ELSE AddFiltersFrom(addFiltersToQuery(query, i, fieldIndex, fieldValues),
                        i + 1, fieldIndex, fieldValues)

\* The variant of the query without the equality on ptype.
FilteredQueryNoPType(ptype, fieldIndex, fieldValues) ==
    AddFiltersFrom(<< >>, 0, fieldIndex, fieldValues)

\* The query of RemoveFilteredPolicy and of UpdateFilteredPolicies.
FilteredQuery(ptype, fieldIndex, fieldValues) ==
    AddFiltersFrom(Where(<< >>, <<"ptype">>, EqualOp, ptype), 0, fieldIndex, fieldValues)

\* The Deletes collected from the documents the iterator returned.
DeleteActions(docs) == [i \in 1..Len(docs) |-> DeleteAction(docs[i])]

\* The variant of RemoveFilteredPolicy that reports a scan without a match
\* as an error.
ErrNotFound == "not found"

RemoveFilteredOutcomesNotFound(s, ptype, fieldIndex, fieldValues) ==
    LET matched == SetToSeq(QueryGet(s, FilteredQuery(ptype, fieldIndex, fieldValues)))
    IN  IF collection = "nil" THEN {<<ErrNilHandle, s>>}
        ELSE IF Len(matched) = 0 THEN {<<ErrNotFound, s>>}
        ELSE {<<ErrIter, s>>} \cup Do(s, DeleteActions(matched))

\* The variant of RemoveFilteredPolicy that, when the iterator fails, submits
\* the Deletes it has collected before it returns the error.
RemoveFilteredOutcomesSubmitsPartial(s, ptype, fieldIndex, fieldValues) ==
    LET matched == SetToSeq(QueryGet(s, FilteredQuery(ptype, fieldIndex, fieldValues)))
    IN  IF collection = "nil" THEN {<<ErrNilHandle, s>>}
        ELSE {<<ErrIter, RunActions(s, DeleteActions(matched), 1..n)>> : n \in 0..Len(matched)}
             \cup Do(s, DeleteActions(matched))

\* The possible results <<error, store after>> of RemoveFilteredPolicy: the
\* iterator fails and the error is returned before the batch, or the batch runs.
RemoveFilteredOutcomes(s, ptype, fieldIndex, fieldValues) ==
    LET matched == SetToSeq(QueryGet(s, FilteredQuery(ptype, fieldIndex, fieldValues)))
    IN  IF collection = "nil" THEN {<<ErrNilHandle, s>>}
        ELSE {<<ErrIter, s>>} \cup Do(s, DeleteActions(matched))

RemoveFilteredPolicy(ptype, fieldIndex, fieldValues) ==
    Write([Call("RemoveFilteredPolicy") EXCEPT !.ptype = ptype,
              !.fieldIndex = fieldIndex, !.fieldValues = fieldValues],
          RemoveFilteredOutcomes(store, ptype, fieldIndex, fieldValues))

\* The Puts of `for _, newLine := range newLines { actionList.Put(&newLine) }`.
\* With a loop variable per iteration (Go 1.22 on) each Put holds its own
\* line; with one loop variable for the whole loop (before Go 1.22) every Put
\* holds the address of that variable, which ends as the last line.
NewLinePuts(newLines, perIteration) ==
    [i \in 1..Len(newLines) |->
        PutAction(IF perIteration THEN newLines[i] ELSE newLines[Len(newLines)])]

\* The old tuples UpdateFilteredPolicies collects from the matched documents.
OldLines(matched) == [i \in 1..Len(matched) |-> toStringPolicy(matched[i])]

UpdateFilteredPolicies(ptype, newPolicies, fieldIndex, fieldValues, perIteration) ==
    LET matched == SetToSeq(QueryGet(store, FilteredQuery(ptype, fieldIndex, fieldValues)))
        newLines == [i \in 1..Len(newPolicies) |-> savePolicyLine(ptype, newPolicies[i])]
        call == [Call("UpdateFilteredPolicies") EXCEPT !.ptype = ptype,
                    !.newRules = newPolicies, !.fieldIndex = fieldIndex,
                    !.fieldValues = fieldValues]
    IN  /\ Idle
        /\ filtered' = filtered
        /\ lastLoad' = lastLoad
        /\ timeout' = timeout
        /\ before' = store
        /\ UNCHANGED handle
        /\ \E out \in IF collection = "nil" THEN {<<ErrNilHandle, store>>}
                      ELSE {<<ErrIter, store>>}
                           \cup Do(store, DeleteActions(matched) \o NewLinePuts(newLines, perIteration)) :
              /\ store' = out[2]
              /\ last' = [call EXCEPT !.err = out[1],
                                      !.ret = IF out[1] = NoError THEN OldLines(matched) ELSE << >>]

-----------------------------------------------------------------------------
(* The adapter's behaviours: any sequence of calls by one caller. *)

Next ==
    \/ Return
    \/ \E model \in LoadModels : LoadPolicy(model)
    \/ \E model \in LoadModels, filter \in CallerFilters : LoadFilteredPolicy(model, filter)
    \/ \E model \in Models : SavePolicy(model)
    \/ \E r \in Rules : AddPolicy(r[1], r[2])
    \/ \E ptype \in PTypes : \E rules \in SeqUpTo(ValuesOf(ptype), MaxBatch) :
          AddPolicies(ptype, rules)
    \/ \E r \in Rules : RemovePolicy(r[1], r[2])
    \/ \E ptype \in PTypes : \E rules \in SeqUpTo(ValuesOf(ptype), MaxBatch) :
          RemovePolicies(ptype, rules)
    \/ \E ptype \in PTypes, fieldIndex \in FieldIndexes, fieldValues \in FieldValueLists :
          RemoveFilteredPolicy(ptype, fieldIndex, fieldValues)
    \/ \E ptype \in PTypes : \E oldRule \in ValuesOf(ptype), newPolicy \in ValuesOf(ptype) :
          UpdatePolicy(ptype, oldRule, newPolicy)
    \/ \E oldRules \in SeqUpTo(UpdateValues, MaxBatch),
          newRules \in SeqUpTo(UpdateValues, MaxBatch) :
          UpdatePolicies(pP, oldRules, newRules)
    \/ IsFiltered
    \/ close
    \/ \E newPolicies \in SeqUpTo(NewRuleValues, MaxBatch),
          f \in UpdateFilters, perIteration \in BOOLEAN :
          UpdateFilteredPolicies(pP, newPolicies, f[1], f[2], perIteration)

Spec == Init /\ [][Next]_vars

-----------------------------------------------------------------------------
(* The rule codec on its own: one rule is encoded by savePolicyLine, the
   document is stored, and the stored document is decoded by loadPolicyLine
   into an empty model. *)

InitCodec ==
    /\ built = [ctor |-> "New", IsFiltered |-> FALSE, Timeout |-> 0]
    /\ timeout = TimeoutAtConstruction(built)
    /\ collection = "open"
    /\ calls = NoCalls
    /\ store = {}
    /\ filtered = FALSE
    /\ lastLoad = "none"
    /\ before = {}
    /\ last \in {[Call("input") EXCEPT !.ptype = ptype, !.rules = <<rule>>] :
                    ptype \in CodecPTypes, rule \in CodecFields \cup LongFields}

Encode ==
    /\ last.op = "input"
    /\ store' = {savePolicyLine(last.ptype, last.rules[1])}
    /\ last' = [last EXCEPT !.op = "savePolicyLine"]
    /\ UNCHANGED <<filtered, timeout, lastLoad, before, handle>>

Decode ==
    /\ last.op = "savePolicyLine"
    /\ \E line \in store :
          last' = IF LoadPolicyLinePanics(lineText(line))
                  THEN [last EXCEPT !.op = "loadPolicyLine", !.err = ErrSliceBounds]
                  ELSE [last EXCEPT !.op = "loadPolicyLine",
                                    !.loaded = loadPolicyLine(line, {})]
    /\ UNCHANGED <<store, filtered, timeout, lastLoad, before, handle>>

NextCodec == Encode \/ Decode

SpecCodec == InitCodec /\ [][NextCodec]_vars

\* The documents and identities of a list of rules of one type.
DocsOf(ptype, rules) == {savePolicyLine(ptype, rules[i]) : i \in 1..Len(rules)}

KeysOf(ptype, rules) == {Key(d) : d \in DocsOf(ptype, rules)}

-----------------------------------------------------------------------------
(* Two concurrent callers on one adapter: one runs RemoveFilteredPolicy, the
   other AddPolicy.  The adapter takes no lock, so the steps of the two calls
   interleave at the store's operations: the scan of RemoveFilteredPolicy
   (query.Get drained by iter.Next), its batch (actionList.Do), and the Put
   of AddPolicy. *)

\* The stores a collection written through the adapter can hold: documents of
\* rules, one per identity.
ConcStores ==
    {DocsOf(pP, SetToSeq(S)) : S \in {T \in SUBSET RuleValues :
        Cardinality(KeysOf(pP, SetToSeq(T))) = Cardinality(T)}}

InitConc ==
    /\ built = [ctor |-> "New", IsFiltered |-> FALSE, Timeout |-> 0]
    /\ timeout = TimeoutAtConstruction(built)
    /\ collection = "open"
    /\ store \in ConcStores
    /\ filtered = FALSE
    /\ lastLoad = "none"
    /\ before = store
    /\ last = Call("idle")
    /\ \E fieldValues \in UpdateFieldValueLists, rule \in RuleValues :
          calls = [remove |-> [pc |-> "scan", ptype |-> pP, fieldIndex |-> 0,
                               fieldValues |-> fieldValues, matched |-> << >>,
                               err |-> NoError],
                   add |-> [pc |-> "put", ptype |-> pP, rule |-> rule,
                            at |-> "", err |-> NoError]]

\* The variant of RemoveBatch of a remover that is serialized against other
\* writers: the batch deletes what matches when it runs.
RemoveBatchSerialized(call, s) ==
    DeleteActions(SetToSeq(QueryGet(s, FilteredQuery(call.ptype, call.fieldIndex,
                                                     call.fieldValues))))

\* The Deletes the batch of RemoveFilteredPolicy holds: one for each document
\* its scan returned.
RemoveBatch(call, s) == DeleteActions(call.matched)

\* RemoveFilteredPolicy, first part: the query is built and drained, each
\* document read is put on the action list as a Delete; if the iterator
\* fails the call returns the error.
Scan ==
    /\ calls.remove.pc = "scan"
    /\ \/ calls' = [calls EXCEPT !.remove.pc = "done", !.remove.err = ErrIter]
       \/ calls' = [calls EXCEPT !.remove.pc = "batch",
                       !.remove.matched =
                           SetToSeq(QueryGet(store, FilteredQuery(calls.remove.ptype,
                               calls.remove.fieldIndex, calls.remove.fieldValues)))]
    /\ UNCHANGED <<built, collection, timeout, store, filtered, lastLoad, before, last>>

\* RemoveFilteredPolicy, second part: actionList.Do and the return.
Batch ==
    /\ calls.remove.pc = "batch"
    /\ before' = store
    /\ \E out \in Do(store, RemoveBatch(calls.remove, store)) :
          /\ store' = out[2]
          /\ calls' = [calls EXCEPT !.remove.pc = "done", !.remove.err = out[1]]
    /\ UNCHANGED <<built, collection, timeout, filtered, lastLoad, last>>

\* AddPolicy of the other caller: one Put; `at` records where in the
\* remover's call it ran.
Put ==
    /\ calls.add.pc = "put"
    /\ \E out \in Do(store, <<PutAction(savePolicyLine(calls.add.ptype, calls.add.rule))>>) :
          /\ store' = out[2]
          /\ calls' = [calls EXCEPT !.add.pc = "done", !.add.err = out[1],
                                    !.add.at = calls.remove.pc]
    /\ UNCHANGED <<built, collection, timeout, filtered, lastLoad, before, last>>

NextConc == Scan \/ Batch \/ Put

SpecConc == InitConc /\ [][NextConc]_vars

-----------------------------------------------------------------------------
(* One LoadFilteredPolicy, step by step: the flag and the type switch, then
   the loop over iter.Next, each return of which is a document, io.EOF or an
   error.  The iterator runs under a context with the adapter's timeout:
   when the deadline passes, iter.Next returns the context's error. *)

ErrTimeout == "context deadline exceeded"

\* What the iterator has left to return after it returned `line`.
\* The variant is an iterator that does not advance.
IterAdvanceStuck(remaining, line) == remaining

IterAdvance(remaining, line) == remaining \ {line}

\* The model the caller holds when the loop returns an error: the model is
\* filled in place, line by line, and `return err` leaves it as it is.
\* The variant gives the caller the model as it was before the load.
ModelOnErrorRollback(model, loaded) == model

ModelOnError(model, loaded) == loaded

InitLoad ==
    /\ built = [ctor |-> "New", IsFiltered |-> FALSE, Timeout |-> 0]
    /\ timeout = TimeoutAtConstruction(built)
    /\ collection = "open"
    /\ store \in ConcStores
    /\ filtered = FALSE
    /\ lastLoad = "none"
    /\ before = store
    /\ \E model \in LoadModels, filter \in CallerFilters :
          /\ last = [Call("LoadFilteredPolicy") EXCEPT !.model = model, !.filter = filter]
          /\ calls = [load |-> [pc |-> "start", filter |-> filter, loaded |-> model,
                                remaining |-> {}, read |-> {}, err |-> NoError]]

\* Lines 144-175: the flag, the type switch, the query and query.Get.
LoadOpen ==
    /\ calls.load.pc = "start"
    /\ filtered' = FilteredAfterLoad(calls.load.filter)
    /\ lastLoad' = IF calls.load.filter.shape = "nil" THEN "unfiltered" ELSE "filtered"
    /\ IF ~ValidFilter(calls.load.filter)
       THEN calls' = [calls EXCEPT !.load.pc = "done", !.load.err = ErrInvalidFilter]
       ELSE calls' = [calls EXCEPT !.load.pc = "iterate",
                         !.load.remaining =
                             QueryGet(store, LoadQuery(NormalizeFilter(calls.load.filter), << >>))]
    /\ UNCHANGED <<built, collection, timeout, store, before, last>>

\* iter.Next returns a document, and loadPolicyLine adds it to the model.
LoadNextLine ==
    /\ calls.load.pc = "iterate"
    /\ \E line \in calls.load.remaining :
          calls' = [calls EXCEPT !.load.remaining = IterAdvance(calls.load.remaining, line),
                                 !.load.read = calls.load.read \cup {line},
                                 !.load.loaded = loadPolicyLine(line, calls.load.loaded)]
    /\ UNCHANGED <<built, collection, timeout, store, filtered, lastLoad, before, last>>

\* iter.Next returns io.EOF: the loop breaks and the load returns nil.
LoadNextEOF ==
    /\ calls.load.pc = "iterate"
    /\ calls.load.remaining = {}
    /\ calls' = [calls EXCEPT !.load.pc = "done", !.load.err = NoError]
    /\ UNCHANGED <<built, collection, timeout, store, filtered, lastLoad, before, last>>

\* iter.Next returns an error, of the store or of the expired context: the
\* load returns it.
LoadNextError ==
    /\ calls.load.pc = "iterate"
    /\ \E err \in {ErrIter, ErrTimeout} :
          calls' = [calls EXCEPT !.load.pc = "done", !.load.err = err,
                                 !.load.loaded = ModelOnError(last.model, calls.load.loaded)]
    /\ UNCHANGED <<built, collection, timeout, store, filtered, lastLoad, before, last>>

NextLoad == LoadOpen \/ LoadNextLine \/ LoadNextEOF \/ LoadNextError

\* A call to iter.Next returns: with a document or io.EOF when the store
\* answers, and with the context's error at the deadline at the latest.  The
\* store is not obliged to fail, so only its answers are required to happen.
SpecLoad ==
    InitLoad /\ [][NextLoad]_vars /\ WF_vars(LoadOpen \/ LoadNextLine \/ LoadNextEOF)

-----------------------------------------------------------------------------
(* Two concurrent callers of UpdateFilteredPolicies on one adapter.  As in
   RemoveFilteredPolicy the call has two parts, the scan (query.Get drained
   by iter.Next) and the batch (actionList.Do), and the adapter takes no lock
   between them.  Each caller replaces what its filter matches by one new
   rule, so the loop variable of the Put loop is used once. *)

Callers == {"first", "second"}

Other(c) == IF c = "first" THEN "second" ELSE "first"

InitUpdate ==
    /\ built = [ctor |-> "New", IsFiltered |-> FALSE, Timeout |-> 0]
    /\ timeout = TimeoutAtConstruction(built)
    /\ collection = "open"
    /\ store \in ConcStores
    /\ filtered = FALSE
    /\ lastLoad = "none"
    /\ before = store
    /\ last = Call("idle")
    /\ calls \in [Callers ->
          {[pc |-> "scan", ptype |-> pP, fieldIndex |-> 0, fieldValues |-> fieldValues,
            newPolicies |-> <<newPolicy>>, matched |-> << >>, seen |-> {},
            other |-> "", ret |-> << >>, err |-> NoError] :
              fieldValues \in UpdateFieldValueLists, newPolicy \in NewRuleValues}]

\* The variant of the batch without the Deletes.
UpdateBatchPutsOnly(call) ==
    NewLinePuts([i \in 1..Len(call.newPolicies) |->
                    savePolicyLine(call.ptype, call.newPolicies[i])], TRUE)

\* The action list of UpdateFilteredPolicies: a Delete for each document the
\* scan returned, then a Put for each new line.
UpdateBatch(call) ==
    DeleteActions(call.matched)
        \o NewLinePuts([i \in 1..Len(call.newPolicies) |->
                           savePolicyLine(call.ptype, call.newPolicies[i])], TRUE)

\* UpdateFilteredPolicies, first part: the query is built and drained; if the
\* iterator fails the call returns the error.  `seen` is the store the scan
\* read and `other` where the other caller was at that time.
UpdateScan(c) ==
    /\ calls[c].pc = "scan"
    /\ \/ calls' = [calls EXCEPT ![c].pc = "done", ![c].err = ErrIter]
       \/ calls' = [calls EXCEPT ![c].pc = "batch",
                       ![c].seen = store,
                       ![c].other = calls[Other(c)].pc,
                       ![c].matched =
                           SetToSeq(QueryGet(store, FilteredQuery(calls[c].ptype,
                               calls[c].fieldIndex, calls[c].fieldValues)))]
    /\ UNCHANGED <<built, collection, timeout, store, filtered, lastLoad, before, last>>

\* UpdateFilteredPolicies, second part: actionList.Do and the return of the
\* old rules.
UpdateDo(c) ==
    /\ calls[c].pc = "batch"
    /\ \E out \in Do(store, UpdateBatch(calls[c])) :
          /\ store' = out[2]
          /\ calls' = [calls EXCEPT ![c].pc = "done", ![c].err = out[1],
                          ![c].ret = IF out[1] = NoError THEN OldLines(calls[c].matched)
                                     ELSE << >>]
    /\ UNCHANGED <<built, collection, timeout, filtered, lastLoad, before, last>>

NextUpdate == \E c \in Callers : UpdateScan(c) \/ UpdateDo(c)

SpecUpdate == InitUpdate /\ [][NextUpdate]_vars

-----------------------------------------------------------------------------
(* Properties *)

\* The documents of s that a call by rule type and field values selects: the
\* rule type is equal, and every non-blank value equals the value field at
\* its position fieldIndex, fieldIndex + 1, ... (positions 0..5).
ValueAt(doc, pos) == <<doc.V0, doc.V1, doc.V2, doc.V3, doc.V4, doc.V5>>[pos + 1]

Selected(s, ptype, fieldIndex, fieldValues) ==
    {d \in s : /\ d.PType = ptype
               /\ \A j \in 1..Len(fieldValues) :
                     (fieldValues[j] # Empty /\ fieldIndex + j - 1 \in 0..5)
                        => ValueAt(d, fieldIndex + j - 1) = fieldValues[j]}

\* The elements of a list.
Range(seq) == {seq[i] : i \in 1..Len(seq)}

\* C1: a SavePolicy issued when the most recent load was given a non-nil
\* filter fails with "cannot save a filtered policy", and a SavePolicy issued
\* when the most recent load was LoadPolicy (or a nil filter) is not rejected:
\* it returns what the store's batch returns.
C1_FilteredLoadExclusivity ==
    last.op = "SavePolicy" =>
        /\ lastLoad = "filtered" => (last.err = ErrFilteredSave /\ store = before)
        /\ lastLoad = "unfiltered" => last.err # ErrFilteredSave

C1_Witness ==
    /\ last.op = "SavePolicy"
    /\ lastLoad = "filtered"
    /\ last.model # {}
    /\ last.err = ErrFilteredSave

\* C2: a successful RemoveFilteredPolicy removes exactly the stored rules of
\* the rule type whose value fields equal the given non-blank values position
\* by position from fieldIndex, a blank value matching anything; every other
\* stored rule is left.
C2_RemoveFilteredSelectsByPosition ==
    (last.op = "RemoveFilteredPolicy" /\ last.err = NoError) =>
        store = before \ Selected(before, last.ptype, last.fieldIndex, last.fieldValues)

C2_Witness ==
    /\ last.op = "RemoveFilteredPolicy"
    /\ last.err = NoError
    /\ last.fieldIndex = 0
    /\ last.fieldValues = <<Empty, sB>>
    /\ before \ store # {}
    /\ \E d \in store : d.PType = last.ptype

\* C3: after a successful SavePolicy(model), a LoadPolicy into an empty model
\* yields exactly the rules of the saved model.
C3_SaveLoadRoundTrip ==
    (last.op = "SavePolicy" /\ last.err = NoError) =>
        \A out \in LoadOutcomes(store, {}, NilFilter) :
            out[1] = NoError => out[2] = last.model

\* C4: decoding the document a rule is encoded to gives the rule back, for a
\* rule of zero to six value fields none of which is empty.
C4_CodecRoundTrip ==
    (/\ last.op = "loadPolicyLine"
     /\ Len(last.rules[1]) <= 6
     /\ \A i \in 1..Len(last.rules[1]) : last.rules[1][i] # Empty)
        => last.loaded = {<<last.ptype, last.rules[1]>>}

\* C5: two rules that differ in rule type or in field list are given
\* different fingerprinted content, hence different identifiers.
C5_ContentAddressing ==
    last.op = "savePolicyLine" =>
        \A d \in store : \A ptype \in PTypes, rule \in CodecFields :
            <<ptype, rule>> # <<last.ptype, last.rules[1]>>
                => Key(savePolicyLine(ptype, rule)) # Key(d)

\* C6: a successful UpdatePolicy(old, new) removes exactly the stored document
\* of old and stores exactly the document of new; every other stored rule is
\* unchanged.
C6_UpdatePairing ==
    (last.op = "UpdatePolicy" /\ last.err = NoError) =>
        store = (before \ DocsOf(last.ptype, last.rules))
                    \cup DocsOf(last.ptype, last.newRules)

\* C7: a successful UpdateFilteredPolicies returns as old tuples exactly the
\* rules that matched the filter before the call, each in the form a load
\* decodes it to.
C7_ReturnsPriorState ==
    (last.op = "UpdateFilteredPolicies" /\ last.err = NoError) =>
        Range(last.ret) =
            {<<r[1]>> \o r[2] :
                r \in LoadLines(Selected(before, last.ptype, last.fieldIndex,
                                         last.fieldValues), {})}

\* C8: after a successful UpdateFilteredPolicies the stored rules are the
\* previous ones minus every rule that matched the filter, plus every new
\* tuple; the rules that did not match are unchanged.
C8_FilteredReplaceEffect ==
    (last.op = "UpdateFilteredPolicies" /\ last.err = NoError) =>
        store = (before \ Selected(before, last.ptype, last.fieldIndex, last.fieldValues))
                    \cup DocsOf(last.ptype, last.newRules)

\* C9 as stated: from any stored set, a successful AddPolicies(rules) followed
\* by a successful RemovePolicies of the same list restores the stored set of
\* before the add.
C9_AddRemoveRestores ==
    (last.op = "AddPolicies" /\ last.err = NoError) =>
        \A out \in Do(store, RemovePoliciesActions(last.ptype, last.rules)) :
            out[1] = NoError => out[2] = before

\* C9 amended: a successful AddPolicies(rules) followed by a successful
\* RemovePolicies of the same list leaves the stored set of before the add
\* less the documents that have the identity of one of the rules; it is the
\* stored set of before the add exactly when no such document was stored.
C9_AddRemoveLeavesOthers ==
    (last.op = "AddPolicies" /\ last.err = NoError) =>
        \A out \in Do(store, RemovePoliciesActions(last.ptype, last.rules)) :
            out[1] = NoError =>
                /\ out[2] = {d \in before : Key(d) \notin KeysOf(last.ptype, last.rules)}
                /\ out[2] = before <=>
                      \A d \in before : Key(d) \notin KeysOf(last.ptype, last.rules)

C9_Witness ==
    /\ last.op = "AddPolicies"
    /\ last.err = NoError
    /\ Len(last.rules) = 2
    /\ before # {}
    /\ \A d \in before : Key(d) \notin KeysOf(last.ptype, last.rules)
    /\ <<NoError, before>> \in Do(store, RemovePoliciesActions(last.ptype, last.rules))

\* C10: after a successful SavePolicy(model) the document of every rule of the
\* model is stored, and a second SavePolicy(model) can succeed and, however it
\* ends, leaves the stored set unchanged: no document is added or removed.
C10_IdempotentSave ==
    (last.op = "SavePolicy" /\ last.err = NoError) =>
        /\ \A r \in last.model : savePolicyLine(r[1], r[2]) \in store
        /\ <<NoError, store>> \in SaveOutcomes(store, filtered, last.model)
        /\ \A out \in SaveOutcomes(store, filtered, last.model) : out[2] = store

C10_Witness ==
    /\ last.op = "SavePolicy"
    /\ last.err = NoError
    /\ Cardinality(last.model) = 2
    /\ store # before

\* C11: after a successful AddPolicy(r) the document of r is stored, it is
\* the only document of its identity, every document of another identity is
\* as before, and an AddPolicy of a rule that is already stored leaves the
\* stored set unchanged.
C11_IdempotentUpsert ==
    (last.op = "AddPolicy" /\ last.err = NoError) =>
        LET doc == savePolicyLine(last.ptype, last.rules[1])
        IN  /\ doc \in store
            /\ Cardinality({d \in store : Key(d) = Key(doc)}) = 1
            /\ store = {d \in before : Key(d) # Key(doc)} \cup {doc}
            /\ doc \in before => store = before

C11_Witness ==
    /\ last.op = "AddPolicy"
    /\ last.err = NoError
    /\ savePolicyLine(last.ptype, last.rules[1]) \in before
    /\ Cardinality(store) = 2

\* C12: a SavePolicy on an adapter in filtered state is rejected with "cannot
\* save a filtered policy" and writes nothing: the stored set after the call
\* is the stored set before it.  No other SavePolicy is rejected.
C12_RejectedSaveWritesNothing ==
    last.op = "SavePolicy" =>
        /\ last.filtered => (last.err = ErrFilteredSave /\ store = before)
        /\ last.err = ErrFilteredSave => last.filtered

C12_Witness ==
    /\ last.op = "SavePolicy"
    /\ last.err = ErrFilteredSave
    /\ \E r \in last.model : savePolicyLine(r[1], r[2]) \notin store

\* C13: a LoadFilteredPolicy with a filter of another type fails with "invalid
\* filter type" and leaves the model, the stored set and the filtered flag as
\* they were before the call.
C13_InvalidFilterNoPartialWork ==
    (last.op = "LoadFilteredPolicy" /\ last.err = ErrInvalidFilter) =>
        /\ last.loaded = last.model
        /\ store = before
        /\ filtered = last.filtered

\* The stored documents that satisfy every predicate of a list, a predicate
\* with an unset operator being an equality.
PredicateHolds(doc, f) ==
    /\ f.Op \in {"", EqualOp}
    /\ \E pos \in 0..5 : f.FieldPath = <<VName(pos)>> /\ ValueAt(doc, pos) = f.Value

Matching(s, preds) ==
    {d \in s : \A i \in 1..Len(preds) : PredicateHolds(d, preds[i])}

\* C14: a successful LoadFilteredPolicy with a Filter, *Filter, []Filter or
\* *[]Filter loads exactly the stored rules that satisfy every predicate the
\* filter carries, whatever the shape that carries them.
C14_FilterShapesEquivalent ==
    (/\ last.op = "LoadFilteredPolicy"
     /\ last.err = NoError
     /\ last.filter.shape \in {"Filter", "*Filter", "[]Filter", "*[]Filter"})
        => last.loaded = LoadLines(Matching(store, last.filter.preds), last.model)

C14_Witness ==
    /\ last.op = "LoadFilteredPolicy"
    /\ last.err = NoError
    /\ last.filter = [shape |-> "*[]Filter", preds |-> <<V0IsA, V1IsB>>]
    /\ last.model = {}
    /\ last.loaded # {}
    /\ Cardinality(store) = 2

\* C15: the filtered flag is true exactly when the most recent load was given
\* a non-nil filter, or, before any load, when the adapter was built by
\* NewFilteredAdapter or with Config.IsFiltered set; IsFiltered returns the
\* flag and changes nothing.
C15_FilteredFlag ==
    /\ lastLoad = "none" =>
          (filtered <=> (built.ctor = "NewFilteredAdapter" \/ built.IsFiltered))
    /\ lastLoad = "filtered" => filtered
    /\ lastLoad = "unfiltered" => ~filtered
    /\ built.ctor = "New" => ~built.IsFiltered
    /\ last.op = "IsFiltered" =>
          (last.ret = <<filtered>> /\ filtered = last.filtered /\ store = before)

C15_Witness ==
    /\ last.op = "IsFiltered"
    /\ built.ctor = "NewFilteredAdapter"
    /\ lastLoad = "unfiltered"
    /\ last.ret = <<FALSE>>

\* C16: a successful RemovePolicy or RemovePolicies removes the documents of
\* the given rules that are stored and nothing else; for a rule that is not
\* stored the stored set is unchanged.
C16_RemoveOnlyTheRule ==
    (last.op \in {"RemovePolicy", "RemovePolicies"} /\ last.err = NoError) =>
        store = before \ DocsOf(last.ptype, last.rules)

\* C18: an operation called after close has released the collection handle
\* returns an error, and does not use the nil handle.
C18_FailsCleanlyAfterClose ==
    (/\ last.collection = "nil"
     /\ last.op \notin {"idle", "close", "IsFiltered"})
        => last.err \notin {NoError, ErrNilHandle}

\* C19: after a successful UpdatePolicies(oldRules, newRules) with lists of
\* equal length, the stored set is the previous one minus the document of
\* every old rule plus the document of every new rule.
C19_UpdatePoliciesPairs ==
    (/\ last.op = "UpdatePolicies"
     /\ last.err = NoError
     /\ Len(last.rules) = Len(last.newRules))
        => store = (before \ DocsOf(last.ptype, last.rules))
                       \cup DocsOf(last.ptype, last.newRules)

\* C20: a stored document with no value field populated is decoded to the
\* rule of its type with zero value fields.
C20_DecodeNoValueFields ==
    (/\ last.op = "loadPolicyLine"
     /\ \A d \in store : \A pos \in 0..5 : ValueAt(d, pos) = Empty)
        => last.loaded = {<<last.ptype, << >>>>}

\* The remover and the adder have both returned success, and the Put of the
\* adder ran between the scan and the batch of the remover.
AddedBetween ==
    /\ calls.remove.pc = "done" /\ calls.remove.err = NoError
    /\ calls.add.pc = "done" /\ calls.add.err = NoError
    /\ calls.add.at = "batch"

\* The rule of the adder matches the filter of the remover.
AddedMatches ==
    LET doc == savePolicyLine(calls.add.ptype, calls.add.rule)
    IN  doc \in Selected({doc}, calls.remove.ptype, calls.remove.fieldIndex,
                         calls.remove.fieldValues)

Highest(doc) ==
    IF \A pos \in 0..5 : ValueAt(doc, pos) = Empty THEN -1
    ELSE CHOOSE pos \in 0..5 :
            /\ ValueAt(doc, pos) # Empty
            /\ \A q \in (pos + 1)..5 : ValueAt(doc, q) = Empty

\* C21: a stored document with a populated value field is decoded to exactly
\* the rule of its type with the values of positions 0 to the highest
\* populated one: an empty value before that position stays at its position,
\* and only the empty values after it are dropped.
C21_DecodeKeepsPositions ==
    (last.op = "loadPolicyLine" /\ last.ptype # Empty) =>
        \A d \in store :
            Highest(d) >= 0 =>
                last.loaded = {<<d.PType, [i \in 1..(Highest(d) + 1) |-> ValueAt(d, i - 1)]>>}

\* The positions alone: the decoded rule has one value per position up to the
\* highest populated one, and an empty value exactly where the document has one.
DecodeKeepsArity ==
    (last.op = "loadPolicyLine" /\ last.ptype # Empty) =>
        \A d \in store :
            Highest(d) >= 0 =>
                \E t \in last.loaded :
                    /\ last.loaded = {t}
                    /\ t[1] = d.PType
                    /\ Len(t[2]) = Highest(d) + 1
                    /\ \A i \in 1..Len(t[2]) :
                          /\ t[2][i] = TrimLeadingSpace(ValueAt(d, i - 1))
                          /\ (t[2][i] = Empty) <=> (ValueAt(d, i - 1) = Empty)

\* C22: a rule of more than six value fields is encoded, without an error, to
\* the document of its first six fields, identifier included.
C22_EncodeDropsBeyondSixth ==
    (last.op = "savePolicyLine" /\ Len(last.rules[1]) > 6) =>
        /\ store = {savePolicyLine(last.ptype, SubSeq(last.rules[1], 1, 6))}
        /\ last.err = NoError

C22_Witness ==
    /\ last.op = "savePolicyLine"
    /\ Len(last.rules[1]) = 7
    /\ last.rules[1][7] # last.rules[1][6]
    /\ \E d \in store : d.V5 = last.rules[1][6]

\* C23: encoding a rule whose rule type is the empty string produces no
\* document: no document with an empty ptype is written.
C23_EmptyRuleTypeRejected ==
    (last.op = "savePolicyLine" /\ last.ptype = Empty) =>
        /\ store = {}
        /\ last.err # NoError

\* No value of the list is both non-blank and at a position 0..5.
NoValueInside(fieldIndex, fieldValues) ==
    \A j \in 1..Len(fieldValues) :
        fieldValues[j] = Empty \/ fieldIndex + j - 1 > 5

\* C24: RemoveFilteredPolicy and UpdateFilteredPolicies, whatever they return
\* and for every fieldIndex and fieldValues, leave every stored rule of another
\* rule type stored; and with no non-blank value at a position 0..5 a
\* successful call matches every stored rule of its rule type:
\* RemoveFilteredPolicy leaves exactly the rules of the other types, and
\* UpdateFilteredPolicies returns every rule of the type as old and leaves of
\* the type only what it wrote.
C24_PTypeAlwaysFiltered ==
    last.op \in {"RemoveFilteredPolicy", "UpdateFilteredPolicies"} =>
        /\ \A d \in before : d.PType # last.ptype => d \in store
        /\ (last.err = NoError /\ NoValueInside(last.fieldIndex, last.fieldValues)) =>
              /\ last.op = "RemoveFilteredPolicy" =>
                    store = {d \in before : d.PType # last.ptype}
              /\ last.op = "UpdateFilteredPolicies" =>
                    /\ Range(last.ret) = {toStringPolicy(d) : d \in {e \in before : e.PType = last.ptype}}
                    /\ store = {d \in before : d.PType # last.ptype}
                                  \cup DocsOf(last.ptype, last.newRules)

C24_Witness ==
    /\ last.op = "RemoveFilteredPolicy"
    /\ last.err = NoError
    /\ last.fieldIndex = 5
    /\ last.fieldValues = <<Empty, sA>>
    /\ \E d \in before : d.PType = last.ptype
    /\ \E d \in store : d.PType # last.ptype

\* C25: a RemoveFilteredPolicy on an open collection whose filter matches no
\* stored document leaves the stored rule set unchanged, and the absence of a
\* match is not an error: the call returns success unless the store itself
\* fails (the iterator or the empty batch returns an error).
C25_RemoveFilteredNoMatch ==
    (/\ last.op = "RemoveFilteredPolicy"
     /\ last.collection = "open"
     /\ Selected(before, last.ptype, last.fieldIndex, last.fieldValues) = {}) =>
        /\ store = before
        /\ last.err \in {NoError, ErrIter, ErrStore}
        /\ <<NoError, before>> \in
              RemoveFilteredOutcomes(before, last.ptype, last.fieldIndex, last.fieldValues)

C25_Witness ==
    /\ last.op = "RemoveFilteredPolicy"
    /\ last.err = NoError
    /\ Selected(before, last.ptype, last.fieldIndex, last.fieldValues) = {}
    /\ \E d \in before : d.PType = last.ptype
    /\ last.fieldValues # << >>
    /\ store = before

\* The documents a stepwise load is to read: those its filter matches.
LoadMatching == Matching(store, NormalizeFilter(calls.load.filter))

\* C26: when iter.Next fails during a load, the load returns that error and
\* reads no further document; the model holds exactly the rules it had before
\* the load and those decoded from the documents read before the failure,
\* and the stored rule set is unchanged.
C26_LoadFailsMidScan ==
    /\ [](( /\ calls.load.pc = "done"
            /\ calls.load.err \in {ErrIter, ErrTimeout}) =>
              /\ calls.load.loaded = LoadLines(calls.load.read, last.model)
              /\ calls.load.read \subseteq LoadMatching
              /\ store = before)
    /\ [][calls.load.pc = "done" => calls' = calls]_vars
    /\ [][store' = store]_vars

C26_Witness ==
    /\ calls.load.pc = "done"
    /\ calls.load.err = ErrIter
    /\ calls.load.read # {}
    /\ calls.load.remaining # {}
    /\ calls.load.loaded # last.model

C28_ScanFailureWritesNothing ==
    (/\ last.op \in {"RemoveFilteredPolicy", "UpdateFilteredPolicies"}
     /\ last.err = ErrIter) =>
        /\ store = before
        /\ last.ret = << >>

C28_Witness ==
    /\ last.op = "RemoveFilteredPolicy"
    /\ last.err = ErrIter
    /\ Selected(before, last.ptype, last.fieldIndex, last.fieldValues) # {}
    /\ store = before

\* The store after the document of `old` is deleted and the document of `new`
\* is put, and the store after the first k pairs are replaced in index order.
PairApplied(s, ptype, old, new) ==
    {d \in s : Key(d) \notin KeysOf(ptype, <<old, new>>)} \cup DocsOf(ptype, <<new>>)

RECURSIVE PairsApplied(_, _, _, _, _)
PairsApplied(s, ptype, oldRules, newRules, k) ==
    IF k = 0 THEN s
    ELSE PairApplied(PairsApplied(s, ptype, oldRules, newRules, k - 1),
                     ptype, oldRules[k], newRules[k])

\* The stores a failed batch of one pair can leave: none, one or both of its
\* two writes applied when the store fails, and none otherwise.
PairFailed(s, ptype, old, new, err) ==
    IF err = ErrStore
    THEN {s, {d \in s : Key(d) \notin KeysOf(ptype, <<old>>)},
          {d \in s : Key(d) \notin KeysOf(ptype, <<new>>)} \cup DocsOf(ptype, <<new>>),
          PairApplied(s, ptype, old, new)}
    ELSE {s}

\* C29: UpdatePolicies replaces pair by pair in index order and is not all or
\* nothing: a call that returns success has replaced every pair, and a call
\* that returns an error has failed at one pair i, with the pairs before i
\* replaced in the store and no pair after i submitted.
C29_UpdatePoliciesNotAtomic ==
    last.op = "UpdatePolicies" =>
        /\ last.err = NoError =>
              /\ Len(last.newRules) >= Len(last.rules)
              /\ store = PairsApplied(before, last.ptype, last.rules, last.newRules,
                                      Len(last.rules))
        /\ last.err # NoError =>
              \E i \in 1..Len(last.rules) :
                 LET applied == PairsApplied(before, last.ptype, last.rules, last.newRules, i - 1)
                 IN  IF i > Len(last.newRules)
                     THEN last.err = ErrIndexOutOfRange /\ store = applied
                     ELSE store \in PairFailed(applied, last.ptype, last.rules[i],
                                               last.newRules[i], last.err)

C29_Witness ==
    /\ last.op = "UpdatePolicies"
    /\ last.err # NoError
    /\ Len(last.rules) = 2 /\ Len(last.newRules) = 2
    /\ store = PairApplied(before, last.ptype, last.rules[1], last.newRules[1])
    /\ store # before
    /\ store # PairsApplied(before, last.ptype, last.rules, last.newRules, 2)

\* The field content of a document: the document without its identifier.
Content(doc) == [doc EXCEPT !.ID = Empty]

\* C30: in every state, the id of each stored document is the fingerprint of
\* the document's own fields (ptype, v0..v5), and no two stored documents have
\* the same field content.
C30_IdIsFingerprint ==
    /\ \A d \in store : d.ID = md5Sum(Sprint(Content(d)))
    /\ \A d, e \in store : Content(d) = Content(e) => d = e
    /\ \A d, e \in store : Key(d) = Key(e) => d = e

C30_Witness ==
    /\ last.op = "UpdateFilteredPolicies"
    /\ last.err = NoError
    /\ Cardinality(store) >= 3
    /\ store # before
    /\ \E d \in store : d.V0 = sASp

\* The operations that write, and the one that reads the flag.
WriteOps ==
    {"AddPolicy", "AddPolicies", "RemovePolicy", "RemovePolicies",
     "RemoveFilteredPolicy", "UpdatePolicy", "UpdatePolicies",
     "UpdateFilteredPolicies", "SavePolicy", "IsFiltered"}

\* C31: a call of AddPolicy, AddPolicies, RemovePolicy, RemovePolicies,
\* RemoveFilteredPolicy, UpdatePolicy, UpdatePolicies, UpdateFilteredPolicies,
\* SavePolicy or IsFiltered, whatever it returns, leaves the filtered flag and
\* the timeout as they were; a step that changes the flag is a load.
C31_OnlyLoadsChangeFlag ==
    /\ [][(last.op = "idle" /\ last'.op \in WriteOps) =>
              (filtered' = filtered /\ timeout' = timeout)]_vars
    /\ [][filtered' # filtered =>
              (last.op = "idle" /\ last'.op \in {"LoadPolicy", "LoadFilteredPolicy"})]_vars

C31_Witness ==
    /\ last.op = "UpdateFilteredPolicies"
    /\ last.err = NoError
    /\ store # before
    /\ filtered
    /\ last.filtered
    /\ timeout = TimeoutAtConstruction(built)
    /\ timeout # defaultTimeout

\* C32: a LoadPolicy or a LoadFilteredPolicy, whatever it returns, leaves the
\* stored documents as they were when it was called.
C32_LoadsReadOnly ==
    /\ [](last.op \in {"LoadPolicy", "LoadFilteredPolicy"} => store = before)
    /\ [][(last.op = "idle" /\ last'.op \in {"LoadPolicy", "LoadFilteredPolicy"}) =>
              store' = store]_vars

C32_Witness ==
    /\ last.op = "LoadFilteredPolicy"
    /\ last.err = ErrIter
    /\ last.filter.shape # "nil"
    /\ last.loaded # last.model
    /\ Cardinality(store) >= 2
    /\ store = before

\* Both callers of UpdateFilteredPolicies have returned success.
BothUpdated ==
    \A c \in Callers : calls[c].pc = "done" /\ calls[c].err = NoError

\* The documents stored at the start that the filter of caller c matches.
MatchedAtStart(c) ==
    Selected(before, calls[c].ptype, calls[c].fieldIndex, calls[c].fieldValues)

\* C33 as stated: when both calls succeed, a rule stored at the start that
\* both filters match is among the old rules of at most one of the calls.
C33_ReportedByAtMostOne ==
    BothUpdated =>
        \A d \in MatchedAtStart("first") \cap MatchedAtStart("second") :
            ~(/\ toStringPolicy(d) \in Range(calls["first"].ret)
              /\ toStringPolicy(d) \in Range(calls["second"].ret))

\* C33 amended: a successful UpdateFilteredPolicies returns as old rules the
\* documents its filter matched in the store as its own scan read it; a
\* document is matched by both calls only if neither call had completed its
\* batch when the other scanned, so a rule is reported by at most one call
\* when the calls do not overlap.
C33_ReportsWhatItScanned ==
    /\ \A c \in Callers :
          (calls[c].pc = "done" /\ calls[c].err = NoError) =>
              /\ Range(calls[c].matched)
                    = Selected(calls[c].seen, calls[c].ptype, calls[c].fieldIndex,
                               calls[c].fieldValues)
              /\ calls[c].ret = OldLines(calls[c].matched)
    /\ \A c \in Callers :
          (BothUpdated /\ calls[c].other = "done") =>
              Range(calls["first"].matched) \cap Range(calls["second"].matched) = {}

C33_Witness ==
    /\ BothUpdated
    /\ calls["first"].other = "scan"
    /\ calls["second"].other = "batch"
    /\ \E d \in MatchedAtStart("first") \cap MatchedAtStart("second") :
          /\ toStringPolicy(d) \in Range(calls["first"].ret)
          /\ toStringPolicy(d) \in Range(calls["second"].ret)
    /\ calls["first"].fieldValues # calls["second"].fieldValues

=============================================================================
